---- MODULE Spec2Model ----
(***************************************************************************)
(* A model of the Spring integrator (src/unnamed/part_000): the class's    *)
(* five number fields, its constructor and its six public methods; and,    *)
(* further down, a model of the Maid (src/Maid.ts).                        *)
(*                                                                         *)
(* The fields are JavaScript numbers (IEEE-754 doubles).  The model keeps  *)
(* the three special values NaN, +Infinity and -Infinity with the          *)
(* arithmetic IEEE-754 gives them, and represents a finite value in fixed  *)
(* point: Fin(v) stands for v / SCALE.  Every operation rounds its result  *)
(* to the nearest representable value, as the double operation does at     *)
(* its own precision.  The sign of a zero is not modelled.                 *)
(***************************************************************************)
EXTENDS Integers, Sequences, FiniteSets

\* One unit of the fixed-point representation is 1 / SCALE.
SCALE == 10 * 10 * 10

(***************************************************************************)
(* Bounds of the exploration.                                              *)
(***************************************************************************)
\* Calls made on one behaviour, the constructor call(s) included.
MaxCalls == 4
\* Step is explored from positions and velocities of at most this magnitude.
MaxMagnitude == 50

(***************************************************************************)
(* Integer helpers.                                                        *)
(***************************************************************************)
Abs(n) == IF n < 0 THEN -n ELSE n

Sgn(n) == IF n < 0 THEN -1 ELSE IF n > 0 THEN 1 ELSE 0

Min(a, b) == IF a < b THEN a ELSE b

Max(a, b) == IF a < b THEN b ELSE a

\* n / d rounded to the nearest integer, halves away from zero (d > 0).
RoundDiv(n, d) == Sgn(n) * ((Abs(n) + (d \div 2)) \div d)

\* The fixed-point product a * b / SCALE, rounded, computed without forming a * b.
MulFix(a, b) ==
    LET ah == Abs(a) \div SCALE
        al == Abs(a) % SCALE
        bh == Abs(b) \div SCALE
        bl == Abs(b) % SCALE
    IN  (Sgn(a) * Sgn(b))
          * ((ah * bh * SCALE) + (ah * bl) + (al * bh) + ((al * bl + (SCALE \div 2)) \div SCALE))

\* The fixed-point quotient a * SCALE / b, rounded, computed without forming a * SCALE (b # 0).
DivFix(a, b) ==
    LET q0 == Abs(a) \div Abs(b)
        r0 == Abs(a) % Abs(b)
    IN  (Sgn(a) * Sgn(b)) * ((q0 * SCALE) + ((r0 * SCALE + (Abs(b) \div 2)) \div Abs(b)))

RECURSIVE ISqrtFrom(_, _)
\* Newton's iteration for the integer square root of n > 0, from an estimate r above it.
ISqrtFrom(n, r) ==
    LET next == (r + (n \div r)) \div 2
    IN  IF next >= r THEN r ELSE ISqrtFrom(n, next)

\* The fixed-point square root of v >= 0, rounded.
SqrtFix(v) ==
    LET n == v * SCALE
        r == IF n = 0 THEN 0 ELSE ISqrtFrom(n, n)
    IN  IF n - (r * r) > r THEN r + 1 ELSE r

(***************************************************************************)
(* JavaScript numbers.                                                     *)
(***************************************************************************)
Fin(v) == [k |-> "fin", v |-> v]

NaN == [k |-> "nan", v |-> 0]

PInf == [k |-> "inf", v |-> 1]

NInf == [k |-> "inf", v |-> -1]

\* The value of a field of an instance that does not exist.
Undefined == [k |-> "undef", v |-> 0]

Inf(s) == IF s < 0 THEN NInf ELSE PInf

IsFin(x) == x.k = "fin"

IsNaN(x) == x.k = "nan"

IsInf(x) == x.k = "inf"

Zero == Fin(0)

One == Fin(SCALE)

\* The number n, an integer literal of the source.
Num(n) == Fin(n * SCALE)

\* -x
Neg(x) == IF IsNaN(x) THEN NaN ELSE [k |-> x.k, v |-> -(x.v)]

\* a + b
Add(a, b) ==
    IF IsNaN(a) \/ IsNaN(b) THEN NaN
    ELSE IF IsInf(a) /\ IsInf(b) THEN (IF a.v = b.v THEN a ELSE NaN)
    ELSE IF IsInf(a) THEN a
    ELSE IF IsInf(b) THEN b
    ELSE Fin(a.v + b.v)

\* a - b
Sub(a, b) == Add(a, Neg(b))

\* a * b
Mul(a, b) ==
    IF IsNaN(a) \/ IsNaN(b) THEN NaN
    ELSE IF IsInf(a) \/ IsInf(b)
         THEN (IF a.v = 0 \/ b.v = 0 THEN NaN ELSE Inf(Sgn(a.v) * Sgn(b.v)))
    ELSE Fin(MulFix(a.v, b.v))

\* a / b
Div(a, b) ==
    IF IsNaN(a) \/ IsNaN(b) THEN NaN
    ELSE IF IsInf(a) THEN (IF IsInf(b) THEN NaN
                           ELSE Inf(a.v * (IF b.v < 0 THEN -1 ELSE 1)))
    ELSE IF IsInf(b) THEN Zero
    ELSE IF b.v = 0 THEN (IF a.v = 0 THEN NaN ELSE Inf(Sgn(a.v)))
    ELSE Fin(DivFix(a.v, b.v))

\* a ** 2 and a ** 3
Pow2(a) == Mul(a, a)

Pow3(a) == Mul(Mul(a, a), a)

\* a < b, a > b, a === b: every comparison with NaN is false.
Lt(a, b) ==
    IF IsNaN(a) \/ IsNaN(b) THEN FALSE
    ELSE IF IsInf(a) THEN (a.v < 0 /\ a # b)
    ELSE IF IsInf(b) THEN b.v > 0
    ELSE a.v < b.v

Gt(a, b) == Lt(b, a)

StrictEq(a, b) == (~IsNaN(a)) /\ (~IsNaN(b)) /\ a = b

\* Math.sqrt
sqrt(x) ==
    IF IsNaN(x) THEN NaN
    ELSE IF IsInf(x) THEN (IF x.v > 0 THEN PInf ELSE NaN)
    ELSE IF x.v < 0 THEN NaN
    ELSE Fin(SqrtFix(x.v))

(***************************************************************************)
(* Math.exp, Math.sin and Math.cos.  Each is evaluated by its Maclaurin    *)
(* series after reducing the argument, in the fixed-point representation;  *)
(* exp(0) = 1, sin(0) = 0 and cos(0) = 1 are exact, as they are for        *)
(* doubles.                                                                *)
(***************************************************************************)
\* Terms summed by each series.
SeriesTerms == 10

\* ln of the largest double (709.78...), in units of 1 / 1000: Math.exp of more is Infinity.
ExpOverflowMilli == 709783

RECURSIVE ExpSeries(_, _, _, _)
ExpSeries(x, n, term, acc) ==
    IF n > SeriesTerms THEN acc
    ELSE LET t == RoundDiv(MulFix(term, x), n)
         IN  ExpSeries(x, n + 1, t, acc + t)

\* e^(x / SCALE) * SCALE for an integer x.
RECURSIVE ExpFix(_)
ExpFix(x) ==
    IF Abs(x) <= SCALE \div 2 THEN ExpSeries(x, 1, SCALE, SCALE)
    ELSE LET half == Sgn(x) * (Abs(x) \div 2)
             h == ExpFix(half)
             odd == x - (2 * half)
         IN  MulFix(MulFix(h, h), ExpSeries(odd, 1, SCALE, SCALE))

exp(x) ==
    IF IsNaN(x) THEN NaN
    ELSE IF IsInf(x) THEN (IF x.v > 0 THEN PInf ELSE Zero)
    ELSE IF x.v > (ExpOverflowMilli * SCALE) \div 1000 THEN PInf
    ELSE Fin(ExpFix(x.v))

\* Math.PI
pi == Fin(RoundDiv(31416 * SCALE, 10000))

\* x reduced by whole turns into [-pi, pi].
ReduceTurn(x) ==
    LET turn == 2 * pi.v
        r == x % turn
    IN  IF r > pi.v THEN r - turn ELSE r

RECURSIVE TrigSeries(_, _, _, _)
\* The alternating series whose term after `term` is -term * x2 / (n * (n + 1)).
TrigSeries(x2, n, term, acc) ==
    IF n > 2 * SeriesTerms THEN acc
    ELSE LET t == -RoundDiv(MulFix(term, x2), n * (n + 1))
         IN  TrigSeries(x2, n + 2, t, acc + t)

sin(x) ==
    IF ~IsFin(x) THEN NaN
    ELSE LET r == ReduceTurn(x.v)
         IN  Fin(Max(-SCALE, Min(SCALE, TrigSeries(MulFix(r, r), 2, r, r))))

cos(x) ==
    IF ~IsFin(x) THEN NaN
    ELSE LET r == ReduceTurn(x.v)
         IN  Fin(Max(-SCALE, Min(SCALE, TrigSeries(MulFix(r, r), 1, SCALE, SCALE))))

(***************************************************************************)
(* The ^ operator of the source: both operands are converted to 32-bit     *)
(* integers (ToInt32) and combined bit by bit with exclusive or.           *)
(***************************************************************************)
\* ToInt32: a non-finite number is 0, a finite one loses its fraction.
ToInt32(x) == IF IsFin(x) THEN Sgn(x.v) * (Abs(x.v) \div SCALE) ELSE 0

RECURSIVE XorNat(_, _)
XorNat(a, b) ==
    IF a = 0 THEN b
    ELSE IF b = 0 THEN a
    ELSE (((a % 2) + (b % 2)) % 2) + (2 * XorNat(a \div 2, b \div 2))

\* Exclusive or of two's-complement integers: ~n = -n - 1 and (~a) xor b = ~(a xor b).
XorInt(a, b) ==
    IF a >= 0 /\ b >= 0 THEN XorNat(a, b)
    ELSE IF a < 0 /\ b < 0 THEN XorNat(-a - 1, -b - 1)
    ELSE IF a < 0 THEN -XorNat(-a - 1, b) - 1
    ELSE -XorNat(a, -b - 1) - 1

\* x ^ y
BitXor(x, y) == Num(XorInt(ToInt32(x), ToInt32(y)))

(***************************************************************************)
(* The constants of the source.                                            *)
(***************************************************************************)
tau == Mul(pi, Num(2))

\* (1/3840)^2
SLEEP_OFFSET_SQ_LIMIT == BitXor(Div(Num(1), Num(3840)), Num(2))

\* 1e-2^2
SLEEP_VELOCITY_SQ_LIMIT == BitXor(Fin(RoundDiv(SCALE, 100)), Num(2))

\* 1e-5
EPS == Fin(RoundDiv(SCALE, 100000))

(***************************************************************************)
(* Spring.Step: the three closed forms.  Each yields the new position, the *)
(* new velocity and the branch that computed them.                         *)
(***************************************************************************)
CriticallyDamped(frequency, goal, position, velocity, deltaTime) ==
    LET q == exp(Mul(Neg(frequency), deltaTime))
        w == Mul(deltaTime, q)
        wScaledFrequency == Mul(w, frequency)
        c0 == Add(q, wScaledFrequency)
        c2 == Sub(q, wScaledFrequency)
        c3 == Mul(w, Pow2(frequency))
        goalDistance == Sub(position, goal)
        newPosition == Add(Add(Mul(goalDistance, c0), Mul(velocity, w)), goal)
        newVelocity == Sub(Mul(velocity, c2), Mul(goalDistance, c3))
    IN  [newPosition |-> newPosition, newVelocity |-> newVelocity,
         branch |-> "CriticallyDamped"]

Underdamped(dampingRatio, frequency, goal, position, velocity, deltaTime) ==
    LET frequencyStep == Mul(frequency, deltaTime)
        q == exp(Mul(Neg(dampingRatio), frequencyStep))
        c == sqrt(Sub(Num(1), Pow2(dampingRatio)))
        cFrequencyStep == Mul(c, frequencyStep)
        i == cos(cFrequencyStep)
        j == sin(cFrequencyStep)
        cSquared == Pow2(c)
        z == IF Gt(c, EPS)
             THEN Div(j, c)
             ELSE Add(frequencyStep,
                      Div(Mul(Sub(Div(Mul(Mul(Pow2(frequencyStep), cSquared), cSquared),
                                      Num(20)),
                                  cSquared),
                              Pow3(frequencyStep)),
                          Num(6)))
        cFrequency == Mul(frequency, c)
        cFrequencySquared == Pow2(cFrequency)
        y == IF Gt(cFrequency, EPS)
             THEN Div(j, cFrequency)
             ELSE Add(deltaTime,
                      Div(Mul(Sub(Div(Mul(Mul(Pow2(deltaTime), cFrequencySquared),
                                          cFrequencySquared),
                                      Num(20)),
                                  cFrequencySquared),
                              Pow3(deltaTime)),
                          Num(6)))
        goalDistance == Sub(position, goal)
        newPosition ==
            Add(Mul(Add(Mul(goalDistance, Add(i, Mul(z, dampingRatio))), Mul(velocity, y)), q),
                goal)
        newVelocity ==
            Mul(Sub(Mul(velocity, Sub(i, Mul(z, dampingRatio))),
                    Mul(goalDistance, Mul(z, frequency))),
                q)
    IN  [newPosition |-> newPosition, newVelocity |-> newVelocity,
         branch |-> "Underdamped"]

Overdamped(dampingRatio, frequency, goal, position, velocity, deltaTime) ==
    LET c == sqrt(Sub(Pow2(dampingRatio), Num(1)))
        r1 == Mul(Neg(frequency), Sub(dampingRatio, c))
        r2 == Mul(Neg(frequency), Add(dampingRatio, c))
        ec1 == exp(Mul(r1, deltaTime))
        ec2 == exp(Mul(r2, deltaTime))
        goalDistance == Sub(position, goal)
        co2 == Div(Sub(velocity, Mul(goalDistance, r1)), Mul(Mul(Num(2), frequency), c))
        co1 == Mul(ec1, Sub(goalDistance, co2))
        coEc2 == Mul(co2, ec2)
        newPosition == Add(Add(co1, coEc2), goal)
        newVelocity == Add(Mul(co1, r1), Mul(coEc2, r2))
    IN  [newPosition |-> newPosition, newVelocity |-> newVelocity,
         branch |-> "Overdamped"]

\* Solve with the underdamped and overdamped tests exchanged.
SolveExchanged(DampingRatio0, Frequency0, Goal0, Position0, Velocity0, deltaTime) ==
    LET dampingRatio == DampingRatio0
        frequency == Mul(Frequency0, tau)
        goal == Goal0
        position == Position0
        velocity == Velocity0
    IN  IF StrictEq(dampingRatio, Num(1))
        THEN CriticallyDamped(frequency, goal, position, velocity, deltaTime)
        ELSE IF Gt(dampingRatio, Num(1))
        THEN Underdamped(dampingRatio, frequency, goal, position, velocity, deltaTime)
        ELSE Overdamped(dampingRatio, frequency, goal, position, velocity, deltaTime)

\* The body of Step on the fields it reads: the branch on dampingRatio.
Solve(DampingRatio0, Frequency0, Goal0, Position0, Velocity0, deltaTime) ==
    LET dampingRatio == DampingRatio0
        frequency == Mul(Frequency0, tau)
        goal == Goal0
        position == Position0
        velocity == Velocity0
    IN  IF StrictEq(dampingRatio, Num(1))
        THEN CriticallyDamped(frequency, goal, position, velocity, deltaTime)
        ELSE IF Lt(dampingRatio, Num(1))
        THEN Underdamped(dampingRatio, frequency, goal, position, velocity, deltaTime)
        ELSE Overdamped(dampingRatio, frequency, goal, position, velocity, deltaTime)

(***************************************************************************)
(* The state: one Spring instance and an observer of the calls made on it. *)
(***************************************************************************)
VARIABLES
    constructed,   \* whether the constructor has returned an instance
    DampingRatio,  \* this.DampingRatio
    Frequency,     \* this.Frequency
    Goal,          \* this.Goal
    Position,      \* this.Position
    Velocity,      \* this.Velocity
    lastOp,        \* the last call: its name, arguments, outcome and the fields before it
    prevOp,        \* the call before the last one
    goalGiven,     \* the goal handed over by the caller most recently
    earlierBranch, \* the branch taken by the latest Step before the last call
    calls          \* the number of calls made

vars == <<constructed, DampingRatio, Frequency, Goal, Position, Velocity,
          lastOp, prevOp, goalGiven, earlierBranch, calls>>

fields == <<DampingRatio, Frequency, Goal, Position, Velocity>>

\* The five fields as one value.
Fields ==
    [DampingRatio |-> DampingRatio, Frequency |-> Frequency, Goal |-> Goal,
     Position |-> Position, Velocity |-> Velocity]

NoOp ==
    [op |-> "none", args |-> <<>>, threw |-> FALSE, ret |-> Undefined, branch |-> "none",
     pre |-> [DampingRatio |-> Undefined, Frequency |-> Undefined, Goal |-> Undefined,
              Position |-> Undefined, Velocity |-> Undefined]]

(***************************************************************************)
(* The arguments the callers are modelled to pass.                         *)
(***************************************************************************)
StartPositions == {Num(0), Num(1)}

Frequencies == {Num(-1), Num(0), Num(1)}

DampingRatios ==
    {Fin(-((5 * SCALE) \div 4)), Fin(-(SCALE \div 2)), Num(0), Fin((3 * SCALE) \div 5), Num(1),
     Fin((5 * SCALE) \div 4)}

Goals == {Num(0), Num(1)}

DeltaTimes == {Num(0), Fin(SCALE \div 4), Fin(-(SCALE \div 4))}

\* A number the exploration goes on from.
InRange(x) == IsFin(x) => Abs(x.v) <= MaxMagnitude * SCALE

(***************************************************************************)
(* The state of one Maid (src/Maid.ts), the call stack of the calls made   *)
(* on it, and an observer of what it does.  The Spring and the Maid do not *)
(* refer to each other: each specification below leaves the other's        *)
(* variables as they are.                                                  *)
(***************************************************************************)
VARIABLES
    Items,            \* this.Items: the Map's entries in insertion order, holes included
    DestroyedState,   \* this.DestroyedState
    DestroyingSignal, \* this.DestroyingSignal: "live" or "destroyed"
    CleanedSignal,    \* this.CleanedSignal: "live" or "destroyed"
    DestroyedSignal,  \* this.DestroyedSignal: "live" or "destroyed"
    stack,            \* the call stack, innermost call last
    log,              \* what the Maid has done: items cleaned, signals fired, the state set
    lastReturn,       \* the latest call of a Maid method that returned
    nextItem,         \* the number of items handed to Give so far, plus one
    nextId,           \* the number of keys GetUniqueId has made so far, plus one
    mcalls            \* the number of Maid methods called by the callers so far

maidVars == <<Items, DestroyedState, DestroyingSignal, CleanedSignal, DestroyedSignal,
              stack, log, lastReturn, nextItem, nextId, mcalls>>

NoItem == [id |-> 0, kind |-> "none"]

\* The key of a call that passes none.
NoKey == 0

NoReturn ==
    [m |-> "none", item |-> NoItem, key |-> NoKey,
     ret |-> [kind |-> "void", item |-> NoItem, bool |-> FALSE], depth |-> 0,
     destroyedAtCall |-> FALSE, logAtCall |-> 0, itemsAtCall |-> <<>>, givenAtCall |-> 0,
     callsAtCall |-> 0, destroyedAtReturn |-> FALSE, logAtReturn |-> 0,
     itemsAtReturn |-> <<>>, givenAtReturn |-> 0, callsAtReturn |-> 0]

\* new Maid(): an empty map, not destroyed, three signals.
MaidConstructed ==
    /\ Items = <<>>
    /\ DestroyedState = FALSE
    /\ DestroyingSignal = "live"
    /\ CleanedSignal = "live"
    /\ DestroyedSignal = "live"
    /\ stack = <<>>
    /\ log = <<>>
    /\ lastReturn = NoReturn
    /\ nextItem = 1
    /\ nextId = 1
    /\ mcalls = 0

Init ==
    /\ constructed = FALSE
    /\ DampingRatio = Undefined
    /\ Frequency = Undefined
    /\ Goal = Undefined
    /\ Position = Undefined
    /\ Velocity = Undefined
    /\ lastOp = NoOp
    /\ prevOp = NoOp
    /\ goalGiven = Undefined
    /\ earlierBranch = "none"
    /\ calls = 0
    /\ MaidConstructed

\* Whether the exploration makes another call from this state.
CanCall ==
    /\ calls < MaxCalls
    /\ InRange(Position)
    /\ InRange(Velocity)

\* The observer's record of one call.
Observe(op, args, threw, ret, branch) ==
    /\ calls' = calls + 1
    /\ prevOp' = lastOp
    /\ earlierBranch' = (IF lastOp.op = "Step" THEN lastOp.branch ELSE earlierBranch)
    /\ lastOp' = [op |-> op, args |-> args, threw |-> threw, ret |-> ret, branch |-> branch,
                  pre |-> Fields]
    /\ UNCHANGED maidVars

\* The constructor rejecting a product of zero as well.
NewRejectingZero(startPosition, frequency, dampingRatio, goalArg) ==
    LET goal == IF goalArg = Undefined THEN startPosition ELSE goalArg
        args == <<startPosition, frequency, dampingRatio, goalArg>>
    IN  /\ ~constructed
        /\ calls = 0
        /\ CanCall
        /\ IF ~Gt(Mul(frequency, dampingRatio), Num(0))
           THEN /\ Observe("new", args, TRUE, Undefined, "none")
                /\ UNCHANGED <<constructed, fields, goalGiven>>
           ELSE /\ DampingRatio' = dampingRatio
                /\ Frequency' = frequency
                /\ Goal' = goal
                /\ Position' = startPosition
                /\ Velocity' = Num(0)
                /\ constructed' = TRUE
                /\ goalGiven' = goal
                /\ Observe("new", args, FALSE, Undefined, "none")

\* The constructor taking zero, not startPosition, for a goal left out.
NewWithZeroDefaultGoal(startPosition, frequency, dampingRatio, goalArg) ==
    LET goal == IF goalArg = Undefined THEN Num(0) ELSE goalArg
        args == <<startPosition, frequency, dampingRatio, goalArg>>
    IN  /\ ~constructed
        /\ calls = 0
        /\ CanCall
        /\ IF Lt(Mul(frequency, dampingRatio), Num(0))
           THEN /\ Observe("new", args, TRUE, Undefined, "none")
                /\ UNCHANGED <<constructed, fields, goalGiven>>
           ELSE /\ DampingRatio' = dampingRatio
                /\ Frequency' = frequency
                /\ Goal' = goal
                /\ Position' = startPosition
                /\ Velocity' = Num(0)
                /\ constructed' = TRUE
                /\ goalGiven' = goal
                /\ Observe("new", args, FALSE, Undefined, "none")

\* new Spring(startPosition, frequency, dampingRatio, goal): goalArg is Undefined when
\* the caller passes no goal.
New(startPosition, frequency, dampingRatio, goalArg) ==
    LET goal == IF goalArg = Undefined THEN startPosition ELSE goalArg
        args == <<startPosition, frequency, dampingRatio, goalArg>>
    IN  /\ ~constructed
        /\ calls = 0
        /\ CanCall
        /\ IF Lt(Mul(frequency, dampingRatio), Num(0))
           THEN /\ Observe("new", args, TRUE, Undefined, "none")
                /\ UNCHANGED <<constructed, fields, goalGiven>>
           ELSE /\ DampingRatio' = dampingRatio
                /\ Frequency' = frequency
                /\ Goal' = goal
                /\ Position' = startPosition
                /\ Velocity' = Num(0)
                /\ constructed' = TRUE
                /\ goalGiven' = goal
                /\ Observe("new", args, FALSE, Undefined, "none")

\* Step(deltaTime), storing the result solved for and returning `returned`.
StepCall(deltaTime, solved, returned) ==
    /\ constructed
    /\ CanCall
    /\ Position' = solved.newPosition
    /\ Velocity' = solved.newVelocity
    /\ Observe("Step", <<deltaTime>>, FALSE, returned, solved.branch)
    /\ UNCHANGED <<constructed, DampingRatio, Frequency, Goal, goalGiven>>

\* Step returning the position it read instead of the one it stored.
StepReturningOldPosition(deltaTime) ==
    LET solved == Solve(DampingRatio, Frequency, Goal, Position, Velocity, deltaTime)
    IN  StepCall(deltaTime, solved, Position)

Step(deltaTime) ==
    LET solved == Solve(DampingRatio, Frequency, Goal, Position, Velocity, deltaTime)
    IN  StepCall(deltaTime, solved, solved.newPosition)

CanSleepResult ==
    IF \/ Gt(Pow2(Velocity), SLEEP_VELOCITY_SQ_LIMIT)
       \/ Gt(Pow2(Sub(Goal, Position)), SLEEP_OFFSET_SQ_LIMIT)
    THEN FALSE
    ELSE TRUE

CanSleep ==
    /\ constructed
    /\ CanCall
    /\ Observe("CanSleep", <<>>, FALSE, CanSleepResult, "none")
    /\ UNCHANGED <<constructed, fields, goalGiven>>

GetGoal ==
    /\ constructed
    /\ CanCall
    /\ Observe("GetGoal", <<>>, FALSE, Goal, "none")
    /\ UNCHANGED <<constructed, fields, goalGiven>>

\* SetGoal storing into the position field.
SetGoalMovingPosition(goal) ==
    /\ constructed
    /\ CanCall
    /\ Position' = goal
    /\ goalGiven' = goal
    /\ Observe("SetGoal", <<goal>>, FALSE, Undefined, "none")
    /\ UNCHANGED <<constructed, DampingRatio, Frequency, Goal, Velocity>>

SetGoal(goal) ==
    /\ constructed
    /\ CanCall
    /\ Goal' = goal
    /\ goalGiven' = goal
    /\ Observe("SetGoal", <<goal>>, FALSE, Undefined, "none")
    /\ UNCHANGED <<constructed, DampingRatio, Frequency, Position, Velocity>>

\* SetDampingRatio storing before it validates.
SetDampingRatioStoringFirst(dampingRatio) ==
    /\ constructed
    /\ CanCall
    /\ DampingRatio' = dampingRatio
    /\ Observe("SetDampingRatio", <<dampingRatio>>, Lt(Mul(Frequency, dampingRatio), Num(0)),
               Undefined, "none")
    /\ UNCHANGED <<constructed, Frequency, Goal, Position, Velocity, goalGiven>>

SetDampingRatio(dampingRatio) ==
    /\ constructed
    /\ CanCall
    /\ IF Lt(Mul(Frequency, dampingRatio), Num(0))
       THEN /\ Observe("SetDampingRatio", <<dampingRatio>>, TRUE, Undefined, "none")
            /\ UNCHANGED <<constructed, fields, goalGiven>>
       ELSE /\ DampingRatio' = dampingRatio
            /\ Observe("SetDampingRatio", <<dampingRatio>>, FALSE, Undefined, "none")
            /\ UNCHANGED <<constructed, Frequency, Goal, Position, Velocity, goalGiven>>

\* SetFrequency validating the stored frequency instead of the new one.
SetFrequencyCheckingStored(frequency) ==
    /\ constructed
    /\ CanCall
    /\ IF Lt(Mul(Frequency, DampingRatio), Num(0))
       THEN /\ Observe("SetFrequency", <<frequency>>, TRUE, Undefined, "none")
            /\ UNCHANGED <<constructed, fields, goalGiven>>
       ELSE /\ Frequency' = frequency
            /\ Observe("SetFrequency", <<frequency>>, FALSE, Undefined, "none")
            /\ UNCHANGED <<constructed, DampingRatio, Goal, Position, Velocity, goalGiven>>

SetFrequency(frequency) ==
    /\ constructed
    /\ CanCall
    /\ IF Lt(Mul(frequency, DampingRatio), Num(0))
       THEN /\ Observe("SetFrequency", <<frequency>>, TRUE, Undefined, "none")
            /\ UNCHANGED <<constructed, fields, goalGiven>>
       ELSE /\ Frequency' = frequency
            /\ Observe("SetFrequency", <<frequency>>, FALSE, Undefined, "none")
            /\ UNCHANGED <<constructed, DampingRatio, Goal, Position, Velocity, goalGiven>>

Next ==
    \/ \E startPosition \in StartPositions, frequency \in Frequencies,
          dampingRatio \in DampingRatios, goalArg \in Goals \cup {Undefined} :
          New(startPosition, frequency, dampingRatio, goalArg)
    \/ \E deltaTime \in DeltaTimes : Step(deltaTime)
    \/ CanSleep
    \/ GetGoal
    \/ \E goal \in Goals : SetGoal(goal)
    \/ \E dampingRatio \in DampingRatios : SetDampingRatio(dampingRatio)
    \/ \E frequency \in Frequencies : SetFrequency(frequency)

Spec == Init /\ [][Next]_vars

(***************************************************************************)
(* The properties checked.  A product of two finite numbers is compared    *)
(* with zero exactly, on the integers that represent them.                 *)
(***************************************************************************)
\* frequency * dampingRatio < 0, for finite numbers.
NegativeProduct(frequency, dampingRatio) == frequency.v * dampingRatio.v < 0

\* The branch a damping ratio selects: d = 1, d < 1, d > 1.
BranchOf(d) ==
    IF d.v = SCALE THEN "CriticallyDamped"
    ELSE IF d.v < SCALE THEN "Underdamped"
    ELSE "Overdamped"

\* C1: in every state reached by a successful construction and any calls after it,
\* failing ones included, the stored frequency * dampingRatio is >= 0.
C1_ConvergenceInvariant ==
    constructed =>
        /\ IsFin(Frequency)
        /\ IsFin(DampingRatio)
        /\ ~NegativeProduct(Frequency, DampingRatio)

\* A failing setter call right after a succeeding one.
C1_Witness ==
    /\ constructed
    /\ lastOp.op \in {"SetFrequency", "SetDampingRatio"}
    /\ lastOp.threw
    /\ prevOp.op \in {"SetFrequency", "SetDampingRatio"}
    /\ ~prevOp.threw
    /\ prevOp.pre # lastOp.pre

\* C2: the constructor fails iff frequency * dampingRatio < 0; a failure produces no
\* instance, a success stores position = startPosition, velocity = 0 and the given
\* frequency, dampingRatio and goal.
C2_ConstructorFailsIff ==
    lastOp.op = "new" =>
        LET startPosition == lastOp.args[1]
            frequency == lastOp.args[2]
            dampingRatio == lastOp.args[3]
            goalArg == lastOp.args[4]
        IN  /\ lastOp.threw <=> NegativeProduct(frequency, dampingRatio)
            /\ lastOp.threw => (~constructed /\ Fields = NoOp.pre)
            /\ ~lastOp.threw =>
                   /\ constructed
                   /\ Position = startPosition
                   /\ Velocity = Fin(0)
                   /\ Frequency = frequency
                   /\ DampingRatio = dampingRatio
                   /\ (goalArg # Undefined => Goal = goalArg)

\* A construction that succeeds with both parameters negative.
C2_Witness ==
    /\ lastOp.op = "new"
    /\ ~lastOp.threw
    /\ constructed
    /\ Frequency.v < 0
    /\ DampingRatio.v < 0

\* C3: SetDampingRatio(d) fails iff storedFrequency * d < 0 and SetFrequency(f) fails
\* iff f * storedDampingRatio < 0, the stored value being the one the latest successful
\* construction or setter left; a failing setter leaves the five fields unchanged and a
\* succeeding one changes only its own parameter.
C3_SettersFailIff ==
    /\ lastOp.op = "SetDampingRatio" =>
           LET d == lastOp.args[1]
           IN  /\ lastOp.threw <=> NegativeProduct(lastOp.pre.Frequency, d)
               /\ lastOp.threw => Fields = lastOp.pre
               /\ ~lastOp.threw => Fields = [lastOp.pre EXCEPT !.DampingRatio = d]
               /\ (prevOp.op = "SetFrequency" /\ ~prevOp.threw) =>
                      (lastOp.threw <=> NegativeProduct(prevOp.args[1], d))
               /\ (prevOp.op = "SetFrequency" /\ prevOp.threw) =>
                      (lastOp.threw <=> NegativeProduct(prevOp.pre.Frequency, d))
               /\ (prevOp.op = "new") =>
                      (lastOp.threw <=> NegativeProduct(prevOp.args[2], d))
    /\ lastOp.op = "SetFrequency" =>
           LET f == lastOp.args[1]
           IN  /\ lastOp.threw <=> NegativeProduct(f, lastOp.pre.DampingRatio)
               /\ lastOp.threw => Fields = lastOp.pre
               /\ ~lastOp.threw => Fields = [lastOp.pre EXCEPT !.Frequency = f]
               /\ (prevOp.op = "SetDampingRatio" /\ ~prevOp.threw) =>
                      (lastOp.threw <=> NegativeProduct(f, prevOp.args[1]))
               /\ (prevOp.op = "SetDampingRatio" /\ prevOp.threw) =>
                      (lastOp.threw <=> NegativeProduct(f, prevOp.pre.DampingRatio))
               /\ (prevOp.op = "new") =>
                      (lastOp.threw <=> NegativeProduct(f, prevOp.args[3]))

\* SetDampingRatio failing against a frequency that the previous call, a successful
\* SetFrequency, changed.
C3_Witness ==
    /\ lastOp.op = "SetDampingRatio"
    /\ lastOp.threw
    /\ prevOp.op = "SetFrequency"
    /\ ~prevOp.threw
    /\ prevOp.pre.Frequency # prevOp.args[1]
    /\ Fields = lastOp.pre

\* C4: CanSleep() returns true iff velocity^2 <= 1e-4 and (goal - position)^2 <=
\* (1/3840)^2, that is iff |velocity| <= 1/100 and |goal - position| <= 1/3840.
C4_CanSleepThresholds ==
    lastOp.op = "CanSleep" =>
        (lastOp.ret <=>
            /\ IsFin(Velocity)
            /\ IsFin(Goal)
            /\ IsFin(Position)
            /\ Abs(Velocity.v) * 100 <= SCALE
            /\ Abs(Goal.v - Position.v) * 3840 <= SCALE)

\* C5: Step(0) leaves position and velocity unchanged in all three branches; stated
\* here for a positive frequency and a dampingRatio >= 0, where every intermediate value
\* of the three closed forms is finite.
C5_ZeroStepIdentity ==
    (/\ lastOp.op = "Step"
     /\ lastOp.args[1] = Fin(0)
     /\ lastOp.pre.Frequency.v > 0
     /\ lastOp.pre.DampingRatio.v >= 0) =>
        /\ Position = lastOp.pre.Position
        /\ Velocity = lastOp.pre.Velocity

\* C6: from position = goal and velocity = 0, Step(deltaTime) with deltaTime >= 0
\* returns goal and leaves velocity = 0, whatever accepted frequency and dampingRatio
\* are stored.
C6_EquilibriumFixedPoint ==
    (/\ lastOp.op = "Step"
     /\ lastOp.pre.Position = lastOp.pre.Goal
     /\ lastOp.pre.Velocity = Fin(0)
     /\ lastOp.args[1].v >= 0) =>
        /\ lastOp.ret = Goal
        /\ Position = Goal
        /\ Velocity = Fin(0)

\* C7: Step on a finite state with a finite deltaTime stores a finite position and a
\* finite velocity.
C7_StepIsFinite ==
    (/\ lastOp.op = "Step"
     /\ IsFin(lastOp.args[1])
     /\ \A name \in DOMAIN lastOp.pre : IsFin(lastOp.pre[name])) =>
        /\ IsFin(Position)
        /\ IsFin(Velocity)
        /\ IsFin(lastOp.ret)

\* C8: Step leaves frequency, dampingRatio and goal unchanged and returns exactly the
\* position it stored.
C8_StepFrame ==
    lastOp.op = "Step" =>
        /\ ~lastOp.threw
        /\ Frequency = lastOp.pre.Frequency
        /\ DampingRatio = lastOp.pre.DampingRatio
        /\ Goal = lastOp.pre.Goal
        /\ lastOp.ret = Position

\* A Step that moved the spring.
C8_Witness ==
    /\ lastOp.op = "Step"
    /\ IsFin(Position)
    /\ Position # lastOp.pre.Position
    /\ Velocity # lastOp.pre.Velocity
    /\ lastOp.ret = Position

\* C9: SetGoal never fails and changes only the goal; GetGoal returns the goal of the
\* latest SetGoal, or the constructor's when there was none; Step never changes it.
C9_GoalAccessors ==
    /\ lastOp.op = "SetGoal" =>
           /\ ~lastOp.threw
           /\ Fields = [lastOp.pre EXCEPT !.Goal = lastOp.args[1]]
    /\ lastOp.op = "GetGoal" => lastOp.ret = goalGiven
    /\ lastOp.op = "Step" => Goal = lastOp.pre.Goal
    /\ constructed => Goal = goalGiven

\* GetGoal after a Step after the goal was moved away from the position.
C9_Witness ==
    /\ lastOp.op = "GetGoal"
    /\ prevOp.op = "Step"
    /\ lastOp.ret = goalGiven
    /\ prevOp.pre.Goal # prevOp.pre.Position
    /\ prevOp.pre.Position # Position

NewWithoutGoal(op) == op.op = "new" /\ ~op.threw /\ op.args[4] = Undefined

\* C11: a spring constructed without a goal has goal = startPosition and velocity 0,
\* for every startPosition and every accepted (frequency, dampingRatio); called before
\* any other operation, GetGoal returns startPosition and CanSleep returns true.
C11_DefaultGoalIsStart ==
    /\ NewWithoutGoal(lastOp) =>
           /\ Goal = lastOp.args[1]
           /\ Position = lastOp.args[1]
           /\ Velocity = Num(0)
    /\ (NewWithoutGoal(prevOp) /\ lastOp.op = "GetGoal") => lastOp.ret = prevOp.args[1]
    /\ (NewWithoutGoal(prevOp) /\ lastOp.op = "CanSleep") => lastOp.ret = TRUE

\* CanSleep called right after a constructor that was given the start position 1, a
\* negative frequency and a negative dampingRatio, and no goal.
C11_Witness ==
    /\ NewWithoutGoal(prevOp)
    /\ prevOp.args[1] = Num(1)
    /\ prevOp.args[2] = Num(-1)
    /\ lastOp.op = "CanSleep"
    /\ lastOp.ret = TRUE
    /\ Goal = Num(1)

(***************************************************************************)
(* The settling of a displaced spring: a driver constructs the spring away *)
(* from its goal and calls Step once per frame for as long as CanSleep     *)
(* returns false.                                                          *)
(***************************************************************************)
\* Frames the driver is followed for.
MaxFrames == 400

\* The frames of five seconds at sixty frames a second.
FramesInFiveSeconds == 5 * 60

\* The deltaTime of one frame, 1/60 s.
FrameTime == Fin(RoundDiv(SCALE, 60))

SettleStartPositions == {Num(1), Num(10)}

SettleFrequencies == {Num(1), Num(4)}

SettleDampingRatios == {Fin(SCALE \div 2), Num(1), Num(2)}

\* One frame of the driver: Step(1/60) on a spring that CanSleep reports awake.
DriverStep ==
    /\ constructed
    /\ calls <= MaxFrames
    /\ ~CanSleepResult
    /\ LET solved == Solve(DampingRatio, Frequency, Goal, Position, Velocity, FrameTime)
       IN  /\ Position' = solved.newPosition
           /\ Velocity' = solved.newVelocity
           /\ Observe("Step", <<FrameTime>>, FALSE, solved.newPosition, solved.branch)
    /\ UNCHANGED <<constructed, DampingRatio, Frequency, Goal, goalGiven>>

SettleNext ==
    \/ \E startPosition \in SettleStartPositions, frequency \in SettleFrequencies,
          dampingRatio \in SettleDampingRatios :
          New(startPosition, frequency, dampingRatio, Num(0))
    \/ DriverStep

\* The driver runs a frame whenever one is due.
SettleSpec == Init /\ [][SettleNext]_vars /\ WF_vars(DriverStep)

\* C12: a spring with frequency > 0 and dampingRatio > 0 constructed at a position
\* displaced from its goal is reported awake by CanSleep in that initial state, and,
\* its goal unchanged, a driver calling Step with 1/60 s steps reaches a state where
\* CanSleep is true (the driver stops there, so it never uses up the frames it is
\* followed for while the spring is awake); with frequency 4 and dampingRatio 1 it does
\* within five simulated seconds.
C12_DisplacedSpringSettles ==
    constructed =>
        /\ (lastOp.op = "new" /\ Position # Goal) => ~CanSleepResult
        /\ ~CanSleepResult => calls <= MaxFrames
        /\ (Frequency = Num(4) /\ DampingRatio = Num(1)) => calls <= 1 + FramesInFiveSeconds

(***************************************************************************)
(* The Maid (src/Maid.ts, the class of lines 36-197).                      *)
(*                                                                         *)
(* A method of the Maid runs code of its callers while it is running: the  *)
(* cleanup of an item (item(), item.Destroy()) and the handlers connected  *)
(* to its three signals.  That code may call the Maid again before it      *)
(* returns.  The model keeps the call stack and runs each method from one  *)
(* such point to the next; at each of them the callers' code makes any     *)
(* calls, within the bounds, and returns.                                  *)
(***************************************************************************)
\* Maid methods called on one behaviour, by the callers' code at top level, in cleanups
\* and in handlers.
MaxMaidCalls == 5
\* Items handed to Give and GiveItems on one behaviour.
MaxItems == 4

\* The keys the callers pass; GetUniqueId's keys are the negative numbers.
Keys == {1}

\* The kinds of item the callers hand to Give: functions of theirs.  The cleanup of a
\* Maid of theirs (item.Destroy()) is code of the callers as the call of a function is.
GiveKinds == {"Callback"}

\* The kinds of item the callers hand to GiveItems: timers of src/Scheduler.ts, whose
\* Cancel runs no code of the callers.
GiveItemsKinds == {"Scheduled"}

\* GetUniqueId(): a key no caller passes and no earlier call returned.
GetUniqueId(n) == 0 - n

(***************************************************************************)
(* The Map of JavaScript: entries in insertion order; delete leaves a hole *)
(* so that an iterator, which holds an index, goes on to the entries set   *)
(* after it started.                                                       *)
(***************************************************************************)
Hole == [key |-> NoKey, item |-> NoItem, live |-> FALSE]

MapIndex(items, key) ==
    LET found == {i \in 1..Len(items) : items[i].live /\ items[i].key = key}
    IN  IF found = {} THEN 0 ELSE CHOOSE i \in found : TRUE

MapHas(items, key) == MapIndex(items, key) # 0

\* Map.get: NoItem stands for undefined.
MapGet(items, key) ==
    IF MapHas(items, key) THEN items[MapIndex(items, key)].item ELSE NoItem

MapSet(items, key, item) ==
    IF MapHas(items, key)
    THEN [items EXCEPT ![MapIndex(items, key)].item = item]
    ELSE Append(items, [key |-> key, item |-> item, live |-> TRUE])

MapDelete(items, key) ==
    IF MapHas(items, key) THEN [items EXCEPT ![MapIndex(items, key)] = Hole] ELSE items

\* The index of the entry an iterator at index idx yields next, 0 when it is done.
MapNext(items, idx) ==
    LET later == {i \in 1..Len(items) : i > idx /\ items[i].live}
    IN  IF later = {} THEN 0 ELSE CHOOSE i \in later : \A j \in later : i <= j

\* The items the map holds.
MapValues(items) == {items[i].item : i \in {j \in 1..Len(items) : items[j].live}}

(***************************************************************************)
(* Signal (./Signal.ts): Fire runs the connected handlers before it        *)
(* returns; a destroyed signal has no handler connected.                   *)
(***************************************************************************)
SignalRunsHandlers(signal) == signal = "live"

SignalDestroy(signal) == "destroyed"

(***************************************************************************)
(* The observer: the log of what the Maid did, and the calls returned.     *)
(***************************************************************************)
\* One entry of the log: e is "clean" (CleanItem on an item), "fire" (Fire on a signal),
\* "set" (DestroyedState = true) or "signals" (the three signals destroyed); depth is the
\* height of the stack whose top did it, destroyed the DestroyedState it did it in,
\* held the number of items the map held then, given the number of items handed to
\* Give by then.
Event(e, item, sig, destroyed) ==
    [e |-> e, item |-> item.id, sig |-> sig, depth |-> Len(stack), destroyed |-> destroyed,
     held |-> Cardinality(MapValues(Items)), given |-> nextItem - 1]

RetVoid == [kind |-> "void", item |-> NoItem, bool |-> FALSE]

RetUndefined == [kind |-> "undefined", item |-> NoItem, bool |-> FALSE]

RetItem(item) ==
    IF item = NoItem THEN RetUndefined ELSE [kind |-> "item", item |-> item, bool |-> FALSE]

\* A call on the stack: the method, where it is, its arguments, the iterator's index,
\* and the state it was called in.
Frame(m, item, key) ==
    [m |-> m, pc |-> "start", item |-> item, key |-> key, idx |-> 0, rest |-> 0,
     destroyedAtCall |-> DestroyedState, logAtCall |-> Len(log), itemsAtCall |-> Items,
     givenAtCall |-> nextItem - 1, callsAtCall |-> mcalls]

\* The frame of a call by the callers, which counts among their calls.
Called(m, item, key) == [Frame(m, item, key) EXCEPT !.callsAtCall = mcalls + 1]

\* Code of the callers that the Maid runs: the cleanup of an item or a handler of a signal.
Foreign(m, item, sig) ==
    [m |-> m, pc |-> sig, item |-> item, key |-> NoKey, idx |-> 0, rest |-> 0,
     destroyedAtCall |-> DestroyedState, logAtCall |-> Len(log), itemsAtCall |-> <<>>,
     givenAtCall |-> nextItem - 1, callsAtCall |-> mcalls]

top == stack[Len(stack)]

\* The stack with its top frame replaced.
Replaced(frame) == [stack EXCEPT ![Len(stack)] = frame]

\* The stack without its top frame.
Popped == SubSeq(stack, 1, Len(stack) - 1)

\* The record of the top frame's return of ret, the map and the log as it leaves them.
Returned(ret, items, events) ==
    [m |-> top.m, item |-> top.item, key |-> top.key, ret |-> ret, depth |-> Len(stack),
     destroyedAtCall |-> top.destroyedAtCall, logAtCall |-> top.logAtCall,
     itemsAtCall |-> top.itemsAtCall, givenAtCall |-> top.givenAtCall,
     callsAtCall |-> top.callsAtCall, destroyedAtReturn |-> DestroyedState,
     logAtReturn |-> Len(events), itemsAtReturn |-> items, givenAtReturn |-> nextItem - 1,
     callsAtReturn |-> mcalls]

\* The top frame returns ret.
Return(ret, items, events) ==
    /\ stack' = Popped
    /\ lastReturn' = Returned(ret, items, events)

\* Whether the code running is the callers': at top level, in a cleanup or in a handler.
CallersCode == IF stack = <<>> THEN TRUE ELSE top.m \in {"Callback", "Handler"}

\* Whether the callers' code makes another call.
CanCallMaid == CallersCode /\ mcalls < MaxMaidCalls

\* Whether the top frame is a call of method m.
Running(m) == stack # <<>> /\ top.m = m

\* The cleanup CleanItem runs for an item of each kind.
CleanItem(item) ==
    CASE item.kind = "Giveable" -> "item.Destroy()"
      [] item.kind = "Scheduled" -> "Cancel(item)"
      [] item.kind = "Observer" -> "item.disconnect()"
      [] item.kind = "Connection" -> "item.Disconnect()"
      [] item.kind = "HTMLElement" -> "item.remove()"
      [] OTHER -> "item()"

\* Whether the cleanup of the item is code of the callers.
CleanItemRunsCallersCode(item) == CleanItem(item) \in {"item.Destroy()", "item()"}

\* The top frame, going on as `after`, calls CleanItem(item).
CallCleanItem(item, after) ==
    /\ log' = Append(log, Event("clean", item, "none", DestroyedState))
    /\ stack' = IF CleanItemRunsCallersCode(item)
                THEN Append(Replaced(after), Foreign("Callback", item, "none"))
                ELSE Replaced(after)

\* The top frame, going on as `after`, calls Fire on the signal named sig, whose state
\* is `signal`, with DestroyedState as `destroyed`; `before` is what the log holds by then.
CallFire(sig, signal, destroyed, before, after) ==
    /\ log' = Append(before, Event("fire", NoItem, sig, destroyed))
    /\ stack' = IF SignalRunsHandlers(signal)
                THEN Append(Replaced(after), Foreign("Handler", NoItem, sig))
                ELSE Replaced(after)

\* Has(key)
Has(key) == IF DestroyedState THEN FALSE ELSE MapHas(Items, key)

\* Get(key)
Get(key) == IF DestroyedState THEN NoItem ELSE MapGet(Items, key)

\* IsDestroyed()
IsDestroyed == DestroyedState

\* The callers call Give(item, key) with a new item of the kind given; key is NoKey
\* when they pass none.
CallGive(kind, key) ==
    /\ CanCallMaid
    /\ nextItem <= MaxItems
    /\ stack' = Append(stack, Called("Give", [id |-> nextItem, kind |-> kind], key))
    /\ nextItem' = nextItem + 1
    /\ mcalls' = mcalls + 1
    /\ UNCHANGED <<Items, DestroyedState, DestroyingSignal, CleanedSignal, DestroyedSignal,
                   log, lastReturn, nextId>>
    /\ UNCHANGED vars

\* Give without its test of DestroyedState.
GiveNotCheckingDestroyed ==
    /\ Running("Give")
    /\ CASE top.pc = "start" ->
              LET finalKey == IF top.key = NoKey THEN GetUniqueId(nextId) ELSE top.key
              IN  /\ nextId' = IF top.key = NoKey THEN nextId + 1 ELSE nextId
                  /\ IF MapHas(Items, finalKey)
                     THEN /\ stack' = Append(Replaced([top EXCEPT !.pc = "set", !.key = finalKey]),
                                             Frame("Clean", NoItem, finalKey))
                          /\ UNCHANGED <<Items, log, lastReturn>>
                     ELSE /\ Items' = MapSet(Items, finalKey, top.item)
                          /\ Return(RetItem(top.item), MapSet(Items, finalKey, top.item), log)
                          /\ UNCHANGED log
         [] top.pc = "set" ->
              /\ Items' = MapSet(Items, top.key, top.item)
              /\ Return(RetItem(top.item), MapSet(Items, top.key, top.item), log)
              /\ UNCHANGED <<log, nextId>>
    /\ UNCHANGED <<DestroyedState, DestroyingSignal, CleanedSignal, DestroyedSignal,
                   nextItem, mcalls>>
    /\ UNCHANGED vars

\* Give, lines 92-114, from where it is to the next call it makes or to its return.
Give ==
    /\ Running("Give")
    /\ CASE top.pc = "start" /\ DestroyedState ->
              /\ CallCleanItem(top.item, [top EXCEPT !.pc = "return"])
              /\ UNCHANGED <<Items, lastReturn, nextId>>
         [] top.pc = "start" /\ ~DestroyedState ->
              LET finalKey == IF top.key = NoKey THEN GetUniqueId(nextId) ELSE top.key
              IN  /\ nextId' = IF top.key = NoKey THEN nextId + 1 ELSE nextId
                  /\ IF Has(finalKey)
                     THEN /\ stack' = Append(Replaced([top EXCEPT !.pc = "set", !.key = finalKey]),
                                             Frame("Clean", NoItem, finalKey))
                          /\ UNCHANGED <<Items, log, lastReturn>>
                     ELSE /\ Items' = MapSet(Items, finalKey, top.item)
                          /\ Return(RetItem(top.item), MapSet(Items, finalKey, top.item), log)
                          /\ UNCHANGED log
         [] top.pc = "set" ->
              /\ Items' = MapSet(Items, top.key, top.item)
              /\ Return(RetItem(top.item), MapSet(Items, top.key, top.item), log)
              /\ UNCHANGED <<log, nextId>>
         [] top.pc = "return" ->
              /\ Return(RetItem(top.item), Items, log)
              /\ UNCHANGED <<Items, log, nextId>>
    /\ UNCHANGED <<DestroyedState, DestroyingSignal, CleanedSignal, DestroyedSignal,
                   nextItem, mcalls>>
    /\ UNCHANGED vars

\* The callers call GiveItems with `count` new items.
CallGiveItems(count) ==
    /\ CanCallMaid
    /\ nextItem + count - 1 <= MaxItems
    /\ stack' = Append(stack, [Called("GiveItems", NoItem, NoKey) EXCEPT !.rest = count])
    /\ mcalls' = mcalls + 1
    /\ UNCHANGED <<Items, DestroyedState, DestroyingSignal, CleanedSignal, DestroyedSignal,
                   log, lastReturn, nextItem, nextId>>
    /\ UNCHANGED vars

\* GiveItems, lines 116-125: Give for the next of its arguments, an item of the kind
\* given, or its return.
GiveItems(kind) ==
    /\ Running("GiveItems")
    /\ IF top.rest > 0
       THEN /\ stack' = Append(Replaced([top EXCEPT !.pc = "loop", !.rest = top.rest - 1]),
                               Frame("Give", [id |-> nextItem, kind |-> kind], NoKey))
            /\ nextItem' = nextItem + 1
            /\ UNCHANGED lastReturn
       ELSE /\ Return(RetVoid, Items, log)
            /\ UNCHANGED nextItem
    /\ UNCHANGED <<Items, DestroyedState, DestroyingSignal, CleanedSignal, DestroyedSignal,
                   log, nextId, mcalls>>
    /\ UNCHANGED vars

\* The callers call Clean(key).
CallClean(key) ==
    /\ CanCallMaid
    /\ stack' = Append(stack, Called("Clean", NoItem, key))
    /\ mcalls' = mcalls + 1
    /\ UNCHANGED <<Items, DestroyedState, DestroyingSignal, CleanedSignal, DestroyedSignal,
                   log, lastReturn, nextItem, nextId>>
    /\ UNCHANGED vars

\* Clean, lines 135-151, from where it is to the cleanup it calls or to its return.
Clean ==
    /\ Running("Clean")
    /\ IF top.pc = "start" /\ ~DestroyedState /\ MapGet(Items, top.key) # NoItem
       THEN /\ Items' = MapDelete(Items, top.key)
            /\ CallCleanItem(MapGet(Items, top.key), [top EXCEPT !.pc = "return"])
            /\ UNCHANGED lastReturn
       ELSE /\ Return(RetVoid, Items, log)
            /\ UNCHANGED <<Items, log>>
    /\ UNCHANGED <<DestroyedState, DestroyingSignal, CleanedSignal, DestroyedSignal,
                   nextItem, nextId, mcalls>>
    /\ UNCHANGED vars

\* The callers call CleanUp().
CallCleanUp ==
    /\ CanCallMaid
    /\ stack' = Append(stack, Called("CleanUp", NoItem, NoKey))
    /\ mcalls' = mcalls + 1
    /\ UNCHANGED <<Items, DestroyedState, DestroyingSignal, CleanedSignal, DestroyedSignal,
                   log, lastReturn, nextItem, nextId>>
    /\ UNCHANGED vars

\* CleanUp, lines 153-169, from where it is to the next call it makes or to its return:
\* the loop over the map's entries, each handed to Clean by its key, then the Cleaned
\* signal.
CleanUp ==
    /\ Running("CleanUp")
    /\ CASE top.pc = "start" /\ DestroyedState ->
              /\ Return(RetVoid, Items, log)
              /\ UNCHANGED log
         [] top.pc = "return" ->
              /\ Return(RetVoid, Items, log)
              /\ UNCHANGED log
         [] (top.pc = "start" /\ ~DestroyedState) \/ top.pc = "loop" ->
              LET next == MapNext(Items, top.idx)
              IN  IF next # 0
                  THEN /\ stack' = Append(Replaced([top EXCEPT !.pc = "loop", !.idx = next]),
                                          Frame("Clean", NoItem, Items[next].key))
                       /\ UNCHANGED <<log, lastReturn>>
                  ELSE IF DestroyedState = FALSE
                       THEN /\ CallFire("Cleaned", CleanedSignal, DestroyedState, log,
                                        [top EXCEPT !.pc = "return"])
                            /\ UNCHANGED lastReturn
                       ELSE /\ Return(RetVoid, Items, log)
                            /\ UNCHANGED log
    /\ UNCHANGED <<Items, DestroyedState, DestroyingSignal, CleanedSignal, DestroyedSignal,
                   nextItem, nextId, mcalls>>
    /\ UNCHANGED vars

\* The callers call Destroy().
CallDestroy ==
    /\ CanCallMaid
    /\ stack' = Append(stack, Called("Destroy", NoItem, NoKey))
    /\ mcalls' = mcalls + 1
    /\ UNCHANGED <<Items, DestroyedState, DestroyingSignal, CleanedSignal, DestroyedSignal,
                   log, lastReturn, nextItem, nextId>>
    /\ UNCHANGED vars

\* Destroy, lines 176-196, from where it is to the next call it makes or to its return.
Destroy ==
    /\ Running("Destroy")
    /\ CASE top.pc = "start" /\ DestroyedState = FALSE ->
              /\ CallFire("Destroying", DestroyingSignal, DestroyedState, log,
                          [top EXCEPT !.pc = "CleanUp"])
              /\ UNCHANGED <<DestroyedState, DestroyingSignal, CleanedSignal, DestroyedSignal,
                             lastReturn>>
         [] top.pc = "start" /\ DestroyedState # FALSE ->
              /\ Return(RetVoid, Items, log)
              /\ UNCHANGED <<DestroyedState, DestroyingSignal, CleanedSignal, DestroyedSignal,
                             log>>
         [] top.pc = "CleanUp" ->
              /\ stack' = Append(Replaced([top EXCEPT !.pc = "set"]),
                                 Frame("CleanUp", NoItem, NoKey))
              /\ UNCHANGED <<DestroyedState, DestroyingSignal, CleanedSignal, DestroyedSignal,
                             log, lastReturn>>
         [] top.pc = "set" ->
              /\ DestroyedState' = TRUE
              /\ CallFire("Destroyed", DestroyedSignal, TRUE,
                          Append(log, Event("set", NoItem, "none", TRUE)),
                          [top EXCEPT !.pc = "signals"])
              /\ UNCHANGED <<DestroyingSignal, CleanedSignal, DestroyedSignal, lastReturn>>
         [] top.pc = "signals" ->
              /\ DestroyingSignal' = SignalDestroy(DestroyingSignal)
              /\ CleanedSignal' = SignalDestroy(CleanedSignal)
              /\ DestroyedSignal' = SignalDestroy(DestroyedSignal)
              /\ log' = Append(log, Event("signals", NoItem, "none", DestroyedState))
              /\ Return(RetVoid, Items,
                        Append(log, Event("signals", NoItem, "none", DestroyedState)))
              /\ UNCHANGED DestroyedState
    /\ UNCHANGED <<Items, nextItem, nextId, mcalls>>
    /\ UNCHANGED vars

\* The cleanup or the handler running returns.
ForeignReturn ==
    /\ stack # <<>>
    /\ top.m \in {"Callback", "Handler"}
    /\ stack' = Popped
    /\ UNCHANGED <<Items, DestroyedState, DestroyingSignal, CleanedSignal, DestroyedSignal,
                   log, lastReturn, nextItem, nextId, mcalls>>
    /\ UNCHANGED vars

\* The numbers of arguments GiveItems is called with.
GiveItemsCounts == {2}

MaidNext ==
    \/ \E kind \in GiveKinds, key \in Keys \cup {NoKey} : CallGive(kind, key)
    \/ Give
    \/ \E count \in GiveItemsCounts : CallGiveItems(count)
    \/ \E kind \in GiveItemsKinds : GiveItems(kind)
    \/ \E key \in Keys : CallClean(key)
    \/ Clean
    \/ CallCleanUp
    \/ CleanUp
    \/ CallDestroy
    \/ Destroy
    \/ ForeignReturn

MaidSpec == Init /\ [][MaidNext]_maidVars

(***************************************************************************)
(* The properties of the Maid checked.                                     *)
(***************************************************************************)
\* The items handed to Give and GiveItems so far.
GivenItems == 1..(nextItem - 1)

\* The entries of the log from the one after `from` to the one at `to` that satisfy Test.
EventsWhere(from, to, Test(_)) == {i \in (from + 1)..to : Test(log[i])}

\* The number of times CleanItem has run on the item.
CleanCount(id) ==
    LET IsClean(ev) == ev.e = "clean" /\ ev.item = id
    IN  Cardinality(EventsWhere(0, Len(log), IsClean))

\* The number of times Fire has been called on the signal.
FireCount(sig) ==
    LET IsFire(ev) == ev.e = "fire" /\ ev.sig = sig
    IN  Cardinality(EventsWhere(0, Len(log), IsFire))

\* The items the map holds, by their numbers.
HeldItems == {item.id : item \in MapValues(Items)}

\* The items of the calls of Give that have not returned.
PendingItems == {stack[i].item.id : i \in {j \in 1..Len(stack) : stack[j].m = "Give"}}

\* C13: a destroyed Maid retains nothing uncleaned: whenever IsDestroyed() is true and
\* no Maid method is executing, every item ever passed to Give or GiveItems has been
\* cleaned, the items given from cleanups and from handlers while Destroy runs included.
C13_DestroyedRetainsNothing ==
    (IsDestroyed /\ stack = <<>>) => \A id \in GivenItems : CleanCount(id) >= 1

\* C14: over any sequence of Destroy calls, the re-entrant ones from an item's cleanup
\* or from a Destroying or Cleaned handler of the first Destroy included, the Destroying
\* signal is fired at most once, the Destroyed signal is fired at most once and every
\* stored item is cleaned at most once.
C14_TeardownAtMostOnce ==
    /\ FireCount("Destroying") <= 1
    /\ FireCount("Destroyed") <= 1
    /\ \A id \in GivenItems : CleanCount(id) <= 1

\* The keys the callers and GetUniqueId have made so far.
KeysSoFar == Keys \cup {GetUniqueId(n) : n \in 1..nextId}

\* The entries of the log made between the call and the return of the latest call
\* returned that are cleanups of the item.
CleansDuringLastCall(id) ==
    LET IsClean(ev) == ev.e = "clean" /\ ev.item = id
    IN  EventsWhere(lastReturn.logAtCall, lastReturn.logAtReturn, IsClean)

\* The entries of the log made by the latest call returned itself.
EventsOfLastCall ==
    LET IsOwn(ev) == ev.depth = lastReturn.depth
    IN  EventsWhere(lastReturn.logAtCall, lastReturn.logAtReturn, IsOwn)

\* C15: once IsDestroyed() is true, Has(key) is false and Get(key) is undefined for
\* every key; a call of Give(item, key) made then cleans the item exactly once, at once,
\* returns it and does not store it; a call of Clean, CleanUp or Destroy made then cleans
\* nothing, fires no signal and leaves the map as it is.
C15_DestroyedMaidCleansAtOnce ==
    /\ IsDestroyed => \A key \in KeysSoFar : ~Has(key) /\ Get(key) = NoItem
    /\ lastReturn.destroyedAtCall =>
          /\ lastReturn.itemsAtReturn = lastReturn.itemsAtCall
          /\ lastReturn.m \in {"Clean", "CleanUp", "Destroy"} =>
                lastReturn.logAtReturn = lastReturn.logAtCall
          /\ lastReturn.m = "Give" =>
                /\ lastReturn.ret = RetItem(lastReturn.item)
                /\ Cardinality(CleansDuringLastCall(lastReturn.item.id)) = 1
                /\ CleanCount(lastReturn.item.id) = 1
                /\ EventsOfLastCall = CleansDuringLastCall(lastReturn.item.id)
                /\ lastReturn.item \notin MapValues(lastReturn.itemsAtReturn)

\* Give has returned from a call on a destroyed Maid whose map still holds an entry.
C15_Witness ==
    /\ IsDestroyed
    /\ stack = <<>>
    /\ lastReturn.m = "Give"
    /\ lastReturn.destroyedAtCall
    /\ CleanCount(lastReturn.item.id) = 1
    /\ \E key \in KeysSoFar : MapHas(Items, key) /\ ~Has(key)

\* The number of times CleanItem had run on the item when the latest call returned.
CleanCountAtLastReturn(id) ==
    LET IsClean(ev) == ev.e = "clean" /\ ev.item = id
    IN  Cardinality(EventsWhere(0, lastReturn.logAtReturn, IsClean))

\* Whether the latest call returned is a Give on a Maid not destroyed, with a key the
\* map held.
GaveUnderPresentKey ==
    /\ lastReturn.m = "Give"
    /\ ~lastReturn.destroyedAtCall
    /\ MapHas(lastReturn.itemsAtCall, lastReturn.key)

\* C16: on a Maid not destroyed, Give(item, key) with a key already present cleans the
\* previous item exactly once before it stores the new one, does not clean the new item
\* and leaves every other key as it is; and no item is ever dropped from the map without
\* having been cleaned, also when the cleanup of the previous item calls Give with the
\* same key or destroys the Maid.
C16_GiveReplacesCleanly ==
    /\ GaveUnderPresentKey =>
          LET previous == MapGet(lastReturn.itemsAtCall, lastReturn.key)
          IN  /\ Cardinality(CleansDuringLastCall(previous.id)) = 1
              /\ CleanCountAtLastReturn(previous.id) = 1
              /\ CleanCountAtLastReturn(lastReturn.item.id) = 0
              /\ MapGet(lastReturn.itemsAtReturn, lastReturn.key) = lastReturn.item
              /\ lastReturn.callsAtReturn = lastReturn.callsAtCall =>
                    \A key \in KeysSoFar \ {lastReturn.key} :
                        MapGet(lastReturn.itemsAtReturn, key)
                            = MapGet(lastReturn.itemsAtCall, key)
    /\ \A id \in GivenItems : id \in HeldItems \cup PendingItems \/ CleanCount(id) >= 1

\* The entries of the log in which the latest call returned fired the Cleaned signal.
CleanedFiresOfLastCall ==
    LET IsFire(ev) == ev.e = "fire" /\ ev.sig = "Cleaned" /\ ev.depth = lastReturn.depth
    IN  EventsWhere(lastReturn.logAtCall, lastReturn.logAtReturn, IsFire)

\* The items the map held when the latest call returned was made, and the items given
\* from then until the log's entry i was made.
HeldOrGivenBy(i) ==
    {item.id : item \in MapValues(lastReturn.itemsAtCall)}
        \cup ((lastReturn.givenAtCall + 1)..log[i].given)

\* The number of times CleanItem had run on the item when the log's entry i was made.
CleanCountBy(id, i) ==
    LET IsClean(ev) == ev.e = "clean" /\ ev.item = id
    IN  Cardinality(EventsWhere(0, i, IsClean))

\* C17: CleanUp on a Maid not destroyed cleans every stored item exactly once, the items
\* that cleanups give to the Maid while it iterates included, so that the map is empty
\* when the Cleaned signal is fired; it fires the Cleaned signal exactly once, unless the
\* Maid became destroyed during the call; the Maid stays usable: IsDestroyed() is false
\* and a later Give stores.
C17_CleanUpCleansEverything ==
    /\ \A i \in 1..Len(log) : (log[i].e = "fire" /\ log[i].sig = "Cleaned") => log[i].held = 0
    /\ (lastReturn.m = "CleanUp" /\ ~lastReturn.destroyedAtCall) =>
          /\ Cardinality(CleanedFiresOfLastCall) <= 1
          /\ ~lastReturn.destroyedAtReturn => Cardinality(CleanedFiresOfLastCall) = 1
          /\ \A i \in CleanedFiresOfLastCall :
                \A id \in HeldOrGivenBy(i) : CleanCountBy(id, i) = 1
    /\ (lastReturn.m = "Give" /\ ~lastReturn.destroyedAtCall /\ FireCount("Cleaned") >= 1) =>
          lastReturn.item \in MapValues(lastReturn.itemsAtReturn)

\* The entries of the log in which the CleanUp called by the latest call returned fired
\* the Cleaned signal.
CleanedFiresUnderLastCall ==
    LET IsFire(ev) == ev.e = "fire" /\ ev.sig = "Cleaned" /\ ev.depth = lastReturn.depth + 1
    IN  EventsWhere(lastReturn.logAtCall, lastReturn.logAtReturn, IsFire)

\* Whether the log's entry i is a call of Fire on the signal.
IsFireOf(i, sig) == log[i].e = "fire" /\ log[i].sig = sig

\* Whether a Destroy on the stack has fired Destroying and not yet set DestroyedState:
\* its Destroying handlers, its item cleanups or its Cleaned handlers are running.
DestroyBeforeSet ==
    \E i \in 1..Len(stack) : stack[i].m = "Destroy" /\ stack[i].pc \in {"CleanUp", "set"}

\* C18: Destroy on a Maid not destroyed produces its events in a fixed order: the
\* Destroying signal is fired before any item is cleaned, all items are cleaned before
\* the Cleaned signal is fired, IsDestroyed() is still false while the Destroying
\* handlers, the item cleanups and the Cleaned handlers run, IsDestroyed() becomes true
\* before the Destroyed signal is fired, and the three signals are destroyed only after
\* the Destroyed signal has fired.
C18_DestroyOrder ==
    /\ DestroyBeforeSet => ~IsDestroyed
    /\ (lastReturn.m = "Destroy" /\ ~lastReturn.destroyedAtCall) =>
          /\ Cardinality(EventsOfLastCall) = 4
          /\ Cardinality(CleanedFiresUnderLastCall) = 1
          /\ \E a, b, c, d \in EventsOfLastCall, f \in CleanedFiresUnderLastCall :
                /\ a = lastReturn.logAtCall + 1
                /\ IsFireOf(a, "Destroying") /\ ~log[a].destroyed
                /\ a < f
                /\ \A item \in MapValues(lastReturn.itemsAtCall) :
                      /\ CleanCountBy(item.id, a) = 0
                      /\ CleanCountBy(item.id, f) = 1
                /\ log[f].held = 0 /\ ~log[f].destroyed
                /\ \A i \in a..f : ~log[i].destroyed
                /\ f < b
                /\ log[b].e = "set"
                /\ c = b + 1
                /\ IsFireOf(c, "Destroyed") /\ log[c].destroyed
                /\ c < d
                /\ log[d].e = "signals"
                /\ d = lastReturn.logAtReturn

====
